---------------------------- MODULE Spec2Model ----------------------------
(***************************************************************************)
(* A model of tr2ynab: the amount conversion                              *)
(* (convert_value_string_to_milliunits), the Settings singleton, and the  *)
(* import run (tr_load_transactions followed by ynab_push_transactions).  *)
(*                                                                         *)
(* A Python str is a sequence of one-character strings.  A call that may   *)
(* raise returns a record [ok, val, err]: ok = TRUE and the value, or      *)
(* ok = FALSE and the name of the exception.                               *)
(***************************************************************************)
EXTENDS Integers, Sequences, FiniteSets, TLC

VARIABLES
    \* ---- one call of convert_value_string_to_milliunits
    value,          \* the argument
    ret,            \* what the call returned or raised
    cpc,            \* "call" before the call, "done" after it
    \* ---- the Settings class
    instance,       \* Settings._instance: <<>> is None, <<obj>> an object
    fs,             \* the paths that exist on disk
    lastCall,       \* the last Settings.load / Settings.get and its outcome
    nconstructed,   \* how many Settings objects were constructed so far
    firstLoaded,    \* history: <<obj>> returned by the first successful load
    ncalls,         \* history: number of calls made (bounds the run)
    \* ---- the import run
    pc,             \* where the run stands
    clock,          \* datetime.datetime.now(), in ticks
    lastImportFile, \* the last_import_file: <<>> missing, <<text>> its text
    txs,            \* the provider's timeline: a sequence of [time, amount]
    lastImport,     \* tr_load_transactions' last_import_timestamp
    notBefore,      \* the not_before the Timeline was built with
    events,         \* the indices (into txs) the timeline loop retrieved
    data,           \* the records tr_load_transactions returns
    ledger,         \* the ledger: every batch create_transaction accepted
    run,            \* history: what the current run has done (see NewRun)
    hist            \* history across the runs (see InitRun)

convVars == <<value, ret, cpc>>
setVars  == <<instance, fs, lastCall, nconstructed, firstLoaded, ncalls>>
runVars  == <<pc, clock, lastImportFile, txs, lastImport, notBefore, events,
              data, ledger, run, hist>>
vars     == <<convVars, setVars, runVars>>

-----------------------------------------------------------------------------
(* Bounds of the model.                                                    *)

\* the longest string drawn from the whole alphabet
MaxLen == 4
\* the most digits in the whole part of a well-formed amount
MaxWhole == 4
\* the most digits in the fractional part of a well-formed amount
MaxFrac == 4
\* the most Settings.load and Settings.get calls in a behaviour
MaxCalls == 4
\* the clock's reading when the first run starts
StartTime == 9
\* the most ticks the clock advances
Horizon == 2
\* the most transactions on the provider's timeline
MaxTx == 2
\* the most runs of the tool
MaxRuns == 2

-----------------------------------------------------------------------------
(* Python's str and int.                                                   *)

DigitChars == <<"0", "1", "2", "3", "4", "5", "6", "7", "8", "9">>

IsDigit(c) == \E i \in 1..10 : DigitChars[i] = c

DigitVal(c) == (CHOOSE i \in 1..10 : DigitChars[i] = c) - 1

\* str.isspace for the characters of the model's alphabet
IsSpace(c) == c = " "

Ok(v)  == [ok |-> TRUE,  val |-> v, err |-> "none"]
Err(e) == [ok |-> FALSE, val |-> 0, err |-> e]

\* a faulty Replace: the string is left as it is
ReplaceNothing(s, old) == s

\* value.replace(old, ''): every occurrence of the character removed
Replace(s, old) == SelectSeq(s, LAMBDA c : c # old)

\* c in s
Contains(s, c) == \E i \in 1..Len(s) : s[i] = c

\* s.split(sep): the pieces between the occurrences of sep
RECURSIVE Split(_, _)
Split(s, sep) ==
    IF ~Contains(s, sep) THEN <<s>>
    ELSE LET i == CHOOSE k \in 1..Len(s) :
                     s[k] = sep /\ \A j \in 1..(k - 1) : s[j] # sep
         IN  <<SubSeq(s, 1, i - 1)>> \o Split(SubSeq(s, i + 1, Len(s)), sep)

\* s.startswith(c)
StartsWith(s, c) == Len(s) > 0 /\ s[1] = c

\* s.strip()
RECURSIVE LStrip(_)
LStrip(s) == IF Len(s) > 0 /\ IsSpace(s[1]) THEN LStrip(Tail(s)) ELSE s

RECURSIVE RStrip(_)
RStrip(s) ==
    IF Len(s) > 0 /\ IsSpace(s[Len(s)])
    THEN RStrip(SubSeq(s, 1, Len(s) - 1)) ELSE s

Strip(s) == RStrip(LStrip(s))

\* the value of a run of digits and underscores, most significant first
RECURSIVE DigitsValue(_, _)
DigitsValue(s, acc) ==
    IF s = <<>> THEN acc
    ELSE IF s[1] = "_" THEN DigitsValue(Tail(s), acc)
    ELSE DigitsValue(Tail(s), acc * 10 + DigitVal(s[1]))

\* a lenient IsIntBody: no digits at all are accepted too (and read as 0)
IsIntBodyOrEmpty(s) ==
    /\ Len(s) > 0 => IsDigit(s[1]) /\ IsDigit(s[Len(s)])
    /\ \A i \in 1..Len(s) : IsDigit(s[i]) \/ s[i] = "_"
    /\ \A i \in 1..(Len(s) - 1) : ~(s[i] = "_" /\ s[i + 1] = "_")

\* what int() accepts after the sign: digits, single underscores between them
IsIntBody(s) ==
    /\ Len(s) > 0
    /\ IsDigit(s[1])
    /\ IsDigit(s[Len(s)])
    /\ \A i \in 1..Len(s) : IsDigit(s[i]) \/ s[i] = "_"
    /\ \A i \in 1..(Len(s) - 1) : ~(s[i] = "_" /\ s[i + 1] = "_")

\* int(s): surrounding whitespace stripped, an optional sign, then the digits
PyInt(s) ==
    LET t    == Strip(s)
        sgn  == IF StartsWith(t, "-") THEN -1 ELSE 1
        body == IF StartsWith(t, "-") \/ StartsWith(t, "+") THEN Tail(t) ELSE t
    IN  IF IsIntBody(body) THEN Ok(sgn * DigitsValue(body, 0))
        ELSE Err("ValueError")

-----------------------------------------------------------------------------
(* convert_value_string_to_milliunits                                      *)

\* a faulty NormalizeFraction: padded like fraction.ljust(3, '0'), which
\* does not cut a longer fraction
NormalizeFractionLjust(fraction) ==
    IF Len(fraction) >= 3 THEN fraction
    ELSE SubSeq(fraction \o <<"0", "0", "0">>, 1, 3)

\* (fraction + '000')[:3]
NormalizeFraction(fraction) == SubSeq(fraction \o <<"0", "0", "0">>, 1, 3)

\* a faulty Combine: the fraction is added whatever the sign
CombineAdds(whole, fraction) ==
    LET w == PyInt(whole)
        f == PyInt(fraction)
    IN  IF ~w.ok THEN w
        ELSE IF ~f.ok THEN f
        ELSE Ok(w.val * 1000 + f.val)

\* the two return statements: the fraction is subtracted when whole starts
\* with '-', added otherwise; int() raising propagates
Combine(whole, fraction) ==
    LET w == PyInt(whole)
        f == PyInt(fraction)
    IN  IF ~w.ok THEN w
        ELSE IF ~f.ok THEN f
        ELSE IF StartsWith(whole, "-") THEN Ok(w.val * 1000 - f.val)
        ELSE Ok(w.val * 1000 + f.val)

convert_value_string_to_milliunits(v) ==
    LET value_cleaned == Replace(v, ",")
    IN  IF Contains(value_cleaned, ".")
        THEN LET parts == Split(value_cleaned, ".")
             IN  IF Len(parts) # 2 THEN Err("ValueError")  \* unpacking fails
                 ELSE Combine(parts[1], NormalizeFraction(parts[2]))
        ELSE Combine(value_cleaned, <<"0", "0", "0">>)

-----------------------------------------------------------------------------
(* The arguments the conversion is called with.                            *)

RECURSIVE SeqsOfLen(_, _)
SeqsOfLen(S, n) ==
    IF n = 0 THEN {<<>>}
    ELSE {Append(s, c) : s \in SeqsOfLen(S, n - 1), c \in S}

SeqsUpTo(S, n) == UNION {SeqsOfLen(S, k) : k \in 0..n}

\* the digits the inputs are written with
InputDigits == {"0", "9"}

\* characters that are no part of an amount
Junk == {"x", "+", " ", "_"}

Alphabet == {"0", "9", ",", ".", "-"} \cup Junk

\* a whole part written with thousands separators: a comma before every third
\* digit counted from the right
RECURSIVE Grouped(_)
Grouped(ds) ==
    IF Len(ds) <= 3 THEN ds
    ELSE Grouped(SubSeq(ds, 1, Len(ds) - 3)) \o <<",">>
            \o SubSeq(ds, Len(ds) - 2, Len(ds))

\* the well-formed amounts over the digits D: an optional '-', a whole part of
\* 1..MaxWhole digits with or without separators, and an optional '.' with
\* 0..MaxFrac digits
WellFormed(D) ==
    LET wholes == UNION {SeqsOfLen(D, k) : k \in 1..MaxWhole}
        fracs  == {<<>>} \cup {<<".">> \o f : f \in SeqsUpTo(D, MaxFrac)}
    IN  {s \o w \o f : s \in {<<>>, <<"-">>},
                       w \in wholes \cup {Grouped(d) : d \in wholes},
                       f \in fracs}

\* s with the character c put in before position i
InsertAt(s, i, c) == SubSeq(s, 1, i - 1) \o <<c>> \o SubSeq(s, i, Len(s))

\* well-formed amounts with one foreign character somewhere in them
Damaged ==
    UNION {{InsertAt(s, i, c) : i \in 1..(Len(s) + 1), c \in Junk \cup {"-", "."}}
               : s \in WellFormed({"1"})}

Inputs == WellFormed(InputDigits) \cup SeqsUpTo(Alphabet, MaxLen) \cup Damaged

-----------------------------------------------------------------------------
(* The values the variables of the other parts hold while one part runs.   *)

SettingsIdle ==
    /\ instance = <<>>
    /\ fs = {}
    /\ lastCall = [op |-> "none"]
    /\ nconstructed = 0
    /\ firstLoaded = <<>>
    /\ ncalls = 0

ConvIdle ==
    /\ value = <<>>
    /\ ret = Err("none")
    /\ cpc = "idle"

-----------------------------------------------------------------------------
(* One call of the conversion on any of the inputs.                        *)

Convert ==
    /\ cpc = "call"
    /\ ret' = convert_value_string_to_milliunits(value)
    /\ cpc' = "done"
    /\ UNCHANGED <<value, setVars, runVars>>

-----------------------------------------------------------------------------
(* The Settings singleton.                                                 *)

Paths == {"a.cfg", "b.cfg"}

\* what a path holds: nothing, a config file, or text configparser rejects
Contents == {"missing", "cfg1", "cfg2", "broken"}

NoCall == [op |-> "none", path |-> "none", raised |-> "none", obj |-> <<>>]

\* Settings(config_path) as load calls it, with _instance None: the new object,
\* or the exception __init__ raises
SettingsNew(files, config_path, n) ==
    IF files[config_path] = "missing" THEN Err("FileNotFoundError")
    ELSE IF files[config_path] = "broken" THEN Err("ParsingError")
    ELSE Ok([id |-> n + 1, config_path |-> config_path,
             config |-> files[config_path]])

\* a faulty SettingsLoad: every load builds and installs a new object
SettingsLoadAlways(inst, files, config_path, n) ==
    LET new == SettingsNew(files, config_path, n)
    IN  IF new.ok THEN [inst |-> <<new.val>>, ret |-> new]
        ELSE [inst |-> inst, ret |-> new]

\* Settings.load: the new value of _instance and what the call returns
SettingsLoad(inst, files, config_path, n) ==
    IF inst = <<>>
    THEN LET new == SettingsNew(files, config_path, n)
         IN  IF new.ok THEN [inst |-> <<new.val>>, ret |-> new]
             ELSE [inst |-> <<>>, ret |-> new]
    ELSE [inst |-> inst, ret |-> Ok(inst[1])]

\* Settings.get
SettingsGet(inst) ==
    IF inst = <<>> THEN Err("RuntimeError") ELSE Ok(inst[1])

Load(p) ==
    /\ ncalls < MaxCalls
    /\ LET r == SettingsLoad(instance, fs, p, nconstructed)
       IN  /\ instance' = r.inst
           /\ nconstructed' = IF r.inst # instance THEN nconstructed + 1
                              ELSE nconstructed
           /\ lastCall' = [op |-> "load", path |-> p,
                           raised |-> r.ret.err,
                           obj |-> IF r.ret.ok THEN <<r.ret.val>> ELSE <<>>]
           /\ firstLoaded' = IF firstLoaded = <<>> /\ r.ret.ok
                             THEN <<r.ret.val>> ELSE firstLoaded
    /\ ncalls' = ncalls + 1
    /\ UNCHANGED <<fs, convVars, runVars>>

Get ==
    /\ ncalls < MaxCalls
    /\ LET r == SettingsGet(instance)
       IN  lastCall' = [op |-> "get", path |-> "none", raised |-> r.err,
                        obj |-> IF r.ok THEN <<r.val>> ELSE <<>>]
    /\ ncalls' = ncalls + 1
    /\ UNCHANGED <<instance, fs, nconstructed, firstLoaded, convVars, runVars>>

\* the environment writes or removes a file
WriteFile(p, c) ==
    /\ fs[p] # c
    /\ fs' = [fs EXCEPT ![p] = c]
    /\ UNCHANGED <<instance, lastCall, nconstructed, firstLoaded, ncalls,
                   convVars, runVars>>

-----------------------------------------------------------------------------
(* The import run: tr_load_transactions, then ynab_push_transactions.      *)

\* datetime.timedelta(days=7), in ticks
SevenDays == 7

\* the amount strings the provider's export holds
Amounts == {<<"1", ",", "2", "3", "4", ".", "5">>, <<"x">>}

\* the digits of a natural number
RECURSIVE NatToStr(_)
NatToStr(n) ==
    IF n < 10 THEN <<DigitChars[n + 1]>>
    ELSE NatToStr(n \div 10) \o <<DigitChars[(n % 10) + 1]>>

\* timestamp.isoformat(): the text written for the time t
IsoFormat(t) == NatToStr(t)

\* datetime.datetime.fromisoformat(text.strip())
FromIsoFormat(text) == DigitsValue(Strip(text), 0)

\* get_last_import_timestamp
get_last_import_timestamp(file, now) ==
    IF file = <<>> THEN now - SevenDays ELSE FromIsoFormat(file[1])

\* what the timeline loop retrieves: the transactions not older than not_before
Retrieved(timeline, not_before) ==
    {i \in 1..Len(timeline) : timeline[i].time >= not_before}

\* the exported lines parsed into Transaction records, in timeline order
RECURSIVE Records(_, _, _)
Records(timeline, evs, i) ==
    IF i > Len(timeline) THEN <<>>
    ELSE (IF i \in evs THEN <<[src |-> i, Value |-> timeline[i].amount]>>
          ELSE <<>>) \o Records(timeline, evs, i + 1)

\* a faulty BuildTransactions: a record whose amount does not convert is
\* left out of the request
RECURSIVE BuildTransactionsSkipping(_)
BuildTransactionsSkipping(transactions) ==
    IF transactions = <<>> THEN Ok(<<>>)
    ELSE LET amount == convert_value_string_to_milliunits(Head(transactions).Value)
             rest   == BuildTransactionsSkipping(Tail(transactions))
         IN  IF ~amount.ok THEN rest
             ELSE Ok(<<[src |-> Head(transactions).src, amount |-> amount.val]>>
                        \o rest.val)

\* the loop of ynab_push_transactions: the NewTransaction list, or the error
\* of the first conversion that raises
RECURSIVE BuildTransactions(_)
BuildTransactions(transactions) ==
    IF transactions = <<>> THEN Ok(<<>>)
    ELSE LET amount == convert_value_string_to_milliunits(Head(transactions).Value)
             rest   == BuildTransactions(Tail(transactions))
         IN  IF ~amount.ok THEN amount
             ELSE IF ~rest.ok THEN rest
             ELSE Ok(<<[src |-> Head(transactions).src, amount |-> amount.val]>>
                        \o rest.val)

NewRun(n, file, saved_at) ==
    [n |-> n,               \* the number of the run
     fileAtStart |-> file,  \* the checkpoint file as the run found it
     checkpointAtStart |-> saved_at,  \* the time it holds, -1 without a file
     readAt |-> -1,         \* the clock when the checkpoint was read
     completed |-> {},      \* the steps that completed without error
     failedAt |-> "none",   \* the step that raised
     retrievedAt |-> -1,    \* the clock when the timeline loop finished
     saved |-> FALSE,       \* the run wrote the checkpoint
     requests |-> <<>>,     \* the create_transaction requests the run sent
     pushed |-> FALSE]      \* create_transaction returned without error

Fail(step) ==
    /\ pc' = "failed"
    /\ run' = [run EXCEPT !.failedAt = step]

Pass(step, next) ==
    /\ pc' = next
    /\ run' = [run EXCEPT !.completed = @ \cup {step}]

\* line 130: last_import_timestamp = get_last_import_timestamp()
GetLastImport ==
    /\ pc = "start"
    /\ lastImport' = get_last_import_timestamp(lastImportFile, clock)
    /\ pc' = "login"
    /\ run' = [run EXCEPT !.completed = @ \cup {"read"}, !.readAt = clock]
    /\ UNCHANGED <<clock, lastImportFile, txs, notBefore, events, data, ledger,
                   hist, convVars, setVars>>

\* a faulty Login: the checkpoint is written as soon as the login is done
LoginSavesFirst ==
    /\ pc = "login"
    /\ notBefore' = lastImport
    /\ lastImportFile' = <<IsoFormat(clock)>>
    /\ Pass("login", "tl_loop")
    /\ UNCHANGED <<clock, txs, lastImport, events, data, ledger, hist,
                   convVars, setVars>>

\* lines 134-142: login(), then Timeline(..., not_before=...)
Login ==
    /\ pc = "login"
    /\ notBefore' = lastImport
    /\ Pass("login", "tl_loop")
    /\ UNCHANGED <<clock, lastImportFile, txs, lastImport, events, data,
                   ledger, hist, convVars, setVars>>

LoginFails ==
    /\ pc = "login"
    /\ Fail("login")
    /\ UNCHANGED <<clock, lastImportFile, txs, lastImport, notBefore, events,
                   data, ledger, hist, convVars, setVars>>

\* line 143-144: asyncio.run(tl.tl_loop()); events = tl.events
TlLoop ==
    /\ pc = "tl_loop"
    /\ events' = Retrieved(txs, notBefore)
    /\ hist' = [hist EXCEPT !.fetched = @ \cup Retrieved(txs, notBefore)]
    /\ pc' = "export"
    /\ run' = [run EXCEPT !.completed = @ \cup {"tl_loop"},
                          !.retrievedAt = clock]
    /\ UNCHANGED <<clock, lastImportFile, txs, lastImport, notBefore, data,
                   ledger, convVars, setVars>>

TlLoopFails ==
    /\ pc = "tl_loop"
    /\ Fail("tl_loop")
    /\ UNCHANGED <<clock, lastImportFile, txs, lastImport, notBefore, events,
                   data, ledger, hist, convVars, setVars>>

\* lines 146-157: TransactionExporter(...).export(...)
Export ==
    /\ pc = "export"
    /\ Pass("export", "parse")
    /\ UNCHANGED <<clock, lastImportFile, txs, lastImport, notBefore, events,
                   data, ledger, hist, convVars, setVars>>

ExportFails ==
    /\ pc = "export"
    /\ Fail("export")
    /\ UNCHANGED <<clock, lastImportFile, txs, lastImport, notBefore, events,
                   data, ledger, hist, convVars, setVars>>

\* lines 160-161: data = [Transaction(**json.loads(line)) ...]
Parse ==
    /\ pc = "parse"
    /\ data' = Records(txs, events, 1)
    /\ Pass("parse", "save")
    /\ UNCHANGED <<clock, lastImportFile, txs, lastImport, notBefore, events,
                   ledger, hist, convVars, setVars>>

ParseFails ==
    /\ pc = "parse"
    /\ Fail("parse")
    /\ UNCHANGED <<clock, lastImportFile, txs, lastImport, notBefore, events,
                   data, ledger, hist, convVars, setVars>>

\* line 164: save_last_import_timestamp(datetime.datetime.now())
Save ==
    /\ pc = "save"
    /\ lastImportFile' = <<IsoFormat(clock)>>
    /\ hist' = [hist EXCEPT !.savedAt = clock]
    /\ pc' = "cleanup"
    /\ run' = [run EXCEPT !.completed = @ \cup {"save"}, !.saved = TRUE]
    /\ UNCHANGED <<clock, txs, lastImport, notBefore, events, data, ledger,
                   convVars, setVars>>

\* lines 167-171: shutil.rmtree(tempdir); return data
Cleanup ==
    /\ pc = "cleanup"
    /\ Pass("cleanup", "push")
    /\ UNCHANGED <<clock, lastImportFile, txs, lastImport, notBefore, events,
                   data, ledger, hist, convVars, setVars>>

CleanupFails ==
    /\ pc = "cleanup"
    /\ Fail("cleanup")
    /\ UNCHANGED <<clock, lastImportFile, txs, lastImport, notBefore, events,
                   data, ledger, hist, convVars, setVars>>

\* ynab_push_transactions when a conversion raises: no request is built
PushConversionFails ==
    /\ pc = "push"
    /\ ~BuildTransactions(data).ok
    /\ Fail("push")
    /\ UNCHANGED <<clock, lastImportFile, txs, lastImport, notBefore, events,
                   data, ledger, hist, convVars, setVars>>

\* ynab_push_transactions when create_transaction returns
Push ==
    /\ pc = "push"
    /\ LET built == BuildTransactions(data)
       IN  /\ built.ok
           /\ ledger' = ledger \cup {built.val[i] : i \in 1..Len(built.val)}
           /\ run' = [run EXCEPT !.completed = @ \cup {"push"},
                                 !.requests = Append(@, built.val),
                                 !.pushed = TRUE]
    /\ pc' = "done"
    /\ UNCHANGED <<clock, lastImportFile, txs, lastImport, notBefore, events,
                   data, hist, convVars, setVars>>

\* ynab_push_transactions when create_transaction raises
PushApiFails ==
    /\ pc = "push"
    /\ LET built == BuildTransactions(data)
       IN  /\ built.ok
           /\ run' = [run EXCEPT !.failedAt = "push",
                                 !.requests = Append(@, built.val)]
    /\ pc' = "failed"
    /\ UNCHANGED <<clock, lastImportFile, txs, lastImport, notBefore, events,
                   data, ledger, hist, convVars, setVars>>

\* the tool is started again
NextRun ==
    /\ pc \in {"done", "failed"}
    /\ run.n < MaxRuns
    /\ pc' = "start"
    /\ run' = NewRun(run.n + 1, lastImportFile, hist.savedAt)
    /\ events' = {}
    /\ data' = <<>>
    /\ lastImport' = 0
    /\ notBefore' = 0
    /\ hist' = [hist EXCEPT !.failed = @ \/ pc = "failed"]
    /\ UNCHANGED <<clock, lastImportFile, txs, ledger, convVars, setVars>>

\* time passes
Tick ==
    /\ clock < StartTime + Horizon
    /\ clock' = clock + 1
    /\ UNCHANGED <<pc, lastImportFile, txs, lastImport, notBefore, events,
                   data, ledger, run, hist, convVars, setVars>>

\* a transaction is booked at the provider
TxOccurs(a) ==
    /\ Len(txs) < MaxTx
    /\ txs' = Append(txs, [time |-> clock, amount |-> a])
    /\ UNCHANGED <<pc, clock, lastImportFile, lastImport, notBefore, events,
                   data, ledger, run, hist, convVars, setVars>>

RunIdle ==
    /\ pc = "off"
    /\ clock = 0
    /\ lastImportFile = <<>>
    /\ txs = <<>>
    /\ lastImport = 0
    /\ notBefore = 0
    /\ events = {}
    /\ data = <<>>
    /\ ledger = {}
    /\ run = NewRun(0, <<>>, -1)
    /\ hist = [fetched |-> {}, savedAt |-> -1, failed |-> FALSE]

-----------------------------------------------------------------------------
(* The specifications.                                                     *)

InitConvert ==
    /\ value \in Inputs
    /\ ret = Err("none")
    /\ cpc = "call"
    /\ SettingsIdle
    /\ RunIdle

NextConvert == Convert

SpecConvert == InitConvert /\ [][NextConvert]_vars

InitSettings ==
    /\ instance = <<>>
    /\ fs \in [Paths -> Contents]
    /\ lastCall = NoCall
    /\ nconstructed = 0
    /\ firstLoaded = <<>>
    /\ ncalls = 0
    /\ ConvIdle
    /\ RunIdle

NextSettings ==
    \/ \E p \in Paths : Load(p)
    \/ Get
    \/ \E p \in Paths, c \in Contents : WriteFile(p, c)

SpecSettings == InitSettings /\ [][NextSettings]_vars

\* the first run starts with no checkpoint file, or with the one an earlier
\* run wrote; Settings.load has been called
InitRun ==
    /\ pc = "start"
    /\ clock = StartTime
    /\ \E f \in {<<>>, <<IsoFormat(StartTime)>>} :
          /\ lastImportFile = f
          /\ run = NewRun(1, f, IF f = <<>> THEN -1 ELSE StartTime)
          /\ hist = [fetched |-> {},   \* the transactions a run retrieved
                     \* the time of the last checkpoint written, or -1
                     savedAt |-> IF f = <<>> THEN -1 ELSE StartTime,
                     failed |-> FALSE]  \* an earlier run failed
    /\ txs = <<>>
    /\ lastImport = 0
    /\ notBefore = 0
    /\ events = {}
    /\ data = <<>>
    /\ ledger = {}
    /\ ConvIdle
    /\ SettingsIdle

NextRunSpec ==
    \/ GetLastImport
    \/ Login
    \/ LoginFails
    \/ TlLoop
    \/ TlLoopFails
    \/ Export
    \/ ExportFails
    \/ Parse
    \/ ParseFails
    \/ Save
    \/ Cleanup
    \/ CleanupFails
    \/ PushConversionFails
    \/ Push
    \/ PushApiFails
    \/ NextRun
    \/ Tick
    \/ \E a \in Amounts : TxOccurs(a)

SpecRun == InitRun /\ [][NextRunSpec]_vars

-----------------------------------------------------------------------------
(* The grammar of a decimal amount, read off the string itself.            *)

DigitsOf(s) == SelectSeq(s, IsDigit)

WithoutCommas(s) == SelectSeq(s, LAMBDA c : c # ",")

Negative(s) == Len(s) > 0 /\ s[1] = "-"

Unsigned(s) == IF Negative(s) THEN SubSeq(s, 2, Len(s)) ELSE s

\* the position of the first '.', or one past the end
DotAt(s) ==
    IF \E i \in 1..Len(s) : s[i] = "."
    THEN CHOOSE i \in 1..Len(s) : s[i] = "." /\ \A j \in 1..(i - 1) : s[j] # "."
    ELSE Len(s) + 1

WholePart(s) == SubSeq(Unsigned(s), 1, DotAt(Unsigned(s)) - 1)

FracPart(s) == SubSeq(Unsigned(s), DotAt(Unsigned(s)) + 1, Len(Unsigned(s)))

AllDigits(s) == \A i \in 1..Len(s) : IsDigit(s[i])

\* digits, bare or with a comma before every third digit from the right
IsWhole(w) ==
    /\ Len(w) > 0
    /\ w = DigitsOf(w) \/ w = Grouped(DigitsOf(w))

IsAmount(s) == IsWhole(WholePart(s)) /\ AllDigits(FracPart(s))

\* the number a run of digits denotes
RECURSIVE Magnitude(_)
Magnitude(ds) ==
    IF ds = <<>> THEN 0
    ELSE Magnitude(SubSeq(ds, 1, Len(ds) - 1)) * 10 + DigitVal(ds[Len(ds)])

Sign(s) == IF Negative(s) THEN -1 ELSE 1

PadRight(f) == f \o [i \in 1..(3 - Len(f)) |-> "0"]

\* the amount in milliunits, for at most three fractional digits
Milliunits(s) ==
    Sign(s) * (Magnitude(DigitsOf(WholePart(s))) * 1000
               + Magnitude(PadRight(FracPart(s))))

\* the amount times 1000, cut toward zero
Truncated(s) ==
    LET k == Len(FracPart(s))
        w == Magnitude(DigitsOf(WholePart(s)))
        f == Magnitude(FracPart(s))
    IN  Sign(s) * (w * 1000 + (f * 1000) \div (10 ^ k))

\* the inputs that are to be rejected: a foreign character, a second '.', or
\* a '-' that is not the first character, once the commas are gone
Malformed(s) ==
    LET c == WithoutCommas(s)
    IN  \/ \E i \in 1..Len(c) : ~IsDigit(c[i]) /\ c[i] \notin {".", "-"}
        \/ Cardinality({i \in 1..Len(c) : c[i] = "."}) > 1
        \/ \E i \in 2..Len(c) : c[i] = "-"

-----------------------------------------------------------------------------
(* The claims about the conversion (checked under SpecConvert).            *)

\* C1: a well-formed amount with at most three fractional digits converts to
\* sign * (|whole| * 1000 + F), F the fraction right-padded to three digits,
\* the sign negative exactly when the string starts with '-'.
C1_SignedMilliunits ==
    (cpc = "done" /\ IsAmount(value) /\ Len(FracPart(value)) <= 3)
        => ret = Ok(Milliunits(value))

\* "-0.09" has been converted, to -90
C1_Witness ==
    /\ cpc = "done"
    /\ value = <<"-", "0", ".", "0", "9">>
    /\ ret = Ok(-90)

\* C2: of a fraction longer than three digits only the first three count: the
\* result is the amount times 1000 cut toward zero, for both signs.
C2_TruncatesTowardZero ==
    (cpc = "done" /\ IsAmount(value) /\ Len(FracPart(value)) > 3)
        => ret = Ok(Truncated(value))

\* "-0.9999" has been converted, to -999
C2_Witness ==
    /\ cpc = "done"
    /\ value = <<"-", "0", ".", "9", "9", "9", "9">>
    /\ ret = Ok(-999)

\* C3: the thousands separators of a well-formed amount do not change the
\* result: it converts, and to what the string without its commas converts to.
C3_SeparatorsIgnored ==
    (cpc = "done" /\ IsAmount(value))
        => /\ ret.ok
           /\ ret = convert_value_string_to_milliunits(WithoutCommas(value))

\* "9,000.9" has been converted, to 9000900
C3_Witness ==
    /\ cpc = "done"
    /\ value = <<"9", ",", "0", "0", "0", ".", "9">>
    /\ ret = Ok(9000900)

\* C4: an input with a foreign character, a second '.', or a '-' that is not
\* leading is rejected with an error and never converts to an integer.
C4_MalformedRejected ==
    (cpc = "done" /\ Malformed(value)) => ~ret.ok

\* C5: an input with an empty whole part (".9") or a bare minus ("-.9") for
\* it converts to the signed fraction in milliunits.
C5_EmptyWholeIsZero ==
    (/\ cpc = "done"
     /\ WholePart(value) = <<>>
     /\ Len(FracPart(value)) \in 1..3
     /\ AllDigits(FracPart(value)))
        => ret = Ok(Sign(value) * Magnitude(PadRight(FracPart(value))))

\* C5, as the code has it: an input with an empty whole part, or a bare minus
\* for it, is rejected with ValueError.
C5_EmptyWholeRejected ==
    (cpc = "done" /\ WholePart(value) = <<>>) => ret = Err("ValueError")

\* "-.9" has been converted, and was rejected
C5_Witness ==
    /\ cpc = "done"
    /\ value = <<"-", ".", "9">>
    /\ ret = Err("ValueError")

-----------------------------------------------------------------------------
(* The claim about Settings (checked under SpecSettings).                  *)

\* C7: Settings.get raises RuntimeError exactly when no load has succeeded
\* before it; after one has, get and load return the object the first
\* successful load made, and no later load replaces it; a load that fails
\* leaves the singleton unset.
C7_Singleton ==
    /\ lastCall.op = "get"
          => /\ lastCall.raised = "RuntimeError" <=> firstLoaded = <<>>
             /\ lastCall.raised = "none" => lastCall.obj = firstLoaded
    /\ (lastCall.op = "load" /\ lastCall.raised = "none")
          => lastCall.obj = firstLoaded
    /\ (lastCall.op = "load" /\ lastCall.raised # "none") => instance = <<>>
    /\ instance = firstLoaded

\* a load with another path than the first one's returned the first object
C7_Witness ==
    /\ lastCall.op = "load"
    /\ lastCall.raised = "none"
    /\ firstLoaded # <<>>
    /\ lastCall.path # firstLoaded[1].config_path
    /\ fs[lastCall.path] \notin {"missing", "broken", firstLoaded[1].config}
    /\ lastCall.obj = firstLoaded

-----------------------------------------------------------------------------
(* The claims about the run (checked under SpecRun).                       *)

FetchSteps == {"login", "tl_loop", "export", "parse"}

\* C6: the checkpoint is written only after the upload has succeeded; when the
\* upload or a conversion fails, the checkpoint keeps its previous value.
C6_CheckpointAfterUpload ==
    /\ run.saved => run.pushed
    /\ (pc = "failed" /\ run.failedAt = "push")
          => lastImportFile = run.fileAtStart

\* C8: the checkpoint is read before the fetch and is the not_before of the
\* fetch; it is written only after login, timeline loop, export and parsing
\* have all completed, and a failure of any of them leaves the file as it was.
C8_CheckpointAfterFetch ==
    /\ "login" \in run.completed
          => /\ "read" \in run.completed
             /\ notBefore = IF run.checkpointAtStart = -1
                            THEN run.readAt - SevenDays
                            ELSE run.checkpointAtStart
    /\ (run.saved \/ lastImportFile # run.fileAtStart)
          => FetchSteps \subseteq run.completed
    /\ run.failedAt \in FetchSteps
          => ~run.saved /\ lastImportFile = run.fileAtStart

\* the second run read the checkpoint the first wrote after a tick, fetched
\* from it, and failed in parsing, the file untouched
C8_Witness ==
    /\ pc = "failed"
    /\ run.n = 2
    /\ run.failedAt = "parse"
    /\ run.checkpointAtStart > StartTime
    /\ notBefore = run.checkpointAtStart
    /\ lastImportFile = run.fileAtStart

ConvertsAll(transactions) ==
    \A i \in 1..Len(transactions) :
        convert_value_string_to_milliunits(transactions[i].Value).ok

\* C9: when the amount of a record of the batch does not convert, the error
\* reaches the caller and no request is sent; a request is sent only when
\* every amount converted, and carries each record's converted amount.
C9_NoRequestOnConversionError ==
    /\ \A k \in 1..Len(run.requests) :
          /\ ConvertsAll(data)
          /\ Len(run.requests[k]) = Len(data)
          /\ \A i \in 1..Len(data) :
                /\ run.requests[k][i].src = data[i].src
                /\ run.requests[k][i].amount =
                      convert_value_string_to_milliunits(data[i].Value).val
    /\ (pc \in {"done", "failed"} /\ "cleanup" \in run.completed
            /\ ~ConvertsAll(data))
          => pc = "failed" /\ run.failedAt = "push" /\ run.requests = <<>>

\* a batch of two, the first amount converting and the second not, was given
\* to ynab_push_transactions: it failed and sent nothing
C9_Witness ==
    /\ pc = "failed"
    /\ run.failedAt = "push"
    /\ Len(data) = 2
    /\ convert_value_string_to_milliunits(data[1].Value).ok
    /\ ~convert_value_string_to_milliunits(data[2].Value).ok
    /\ run.requests = <<>>

\* C10: across successful runs no transaction is skipped: once a run that
\* follows only successful runs has set its fetch window, every transaction
\* that no run has retrieved lies inside the window.
C10_NoTransactionSkipped ==
    ("login" \in run.completed /\ ~hist.failed)
        => \A i \in 1..Len(txs) :
              i \in hist.fetched \/ txs[i].time >= notBefore

=============================================================================
